---------------------------- MODULE Spec2Model ----------------------------

(***************************************************************************)
(* Model of the MSI Keyboard Light Manager daemon, src/src/main-daemon.c.  *)
(*                                                                         *)
(* The state is the file's globals (daemon_running, hue, dry_run), the     *)
(* locals of main() and blink_test() (ret, dev, timeout, stat_prev,        *)
(* stat_curr, use, tot, colors, i, dir), the program position pc, and the  *)
(* external device driver seen through its contract: the set of handles    *)
(* currently open.  Variables after the line "history" record what the     *)
(* program did; no guard reads them.                                       *)
(***************************************************************************)
EXTENDS Integers, Sequences, FiniteSets, TLC

VARIABLES pc, daemon_running, hue, dry_run, ret, dev, timeout,
          stat_prev, stat_curr, use, tot, colors, i, dir, exitCode,
          handles, created,
          \* history
          calls, attempts, tickSleeps, retrySleeps, cause, sweep,
          modeOn, doubleClose, reconnected,
          \* the call of a pure function under study (CallSpec only)
          fn

vars == <<pc, daemon_running, hue, dry_run, ret, dev, timeout,
          stat_prev, stat_curr, use, tot, colors, i, dir, exitCode,
          handles, created,
          calls, attempts, tickSleeps, retrySleeps, cause, sweep,
          modeOn, doubleClose, reconnected, fn>>

(***************************************************************************)
(* Program constants.                                                      *)
(***************************************************************************)
NUM_REGIONS == 3

DefaultHue == 20

InitTimeout == 10

SweepSteps == 8

NumFields == 10

(***************************************************************************)
(* Bounds of the model.                                                    *)
(*                                                                         *)
(* WordBits: the counters are C unsigned long; their arithmetic is modular *)
(* and is modelled modulo 2^WordBits (TLC's integers are 32 bit, so the    *)
(* width is scaled down; every product below stays under 2^31).            *)
(* MaxHandles: the driver hands out at most this many handles; further     *)
(* open_keyboard() calls fail.                                             *)
(* UBStep: the spacing of the values a conversion with undefined behaviour *)
(* is allowed to produce (see Saturations).                                *)
(***************************************************************************)
WordBits == 12

MaxHandles == 2

UBStep == 128

ULongMod == 2^WordBits

NULL == 0

(***************************************************************************)
(* Inputs.                                                                 *)
(***************************************************************************)
\* A "cpu" line of /proc/stat: user nice sys idle iowait irq softirq steal
\* guest guest_nice.
Line(us, sy, id) == <<us, 0, sy, id, 0, 0, 0, 0, 0, 0>>

\* The lines the counter source may present: the spec's example pair,
\* presented in any order, so equal and regressing pairs occur too.
Lines == {Line(100, 50, 850), Line(120, 60, 870)}

\* fscanf() results: EOF, a partial match, all ten fields.
ScanResults == {-1, 3, NumFields}

\* set_color() results: failure is a non-positive result.
SetColorResults == {-1, 0, 1}

\* Command lines: with or without -c <col> (color is <<>> or <<col>>), with
\* or without -n.
Argvs == [color : {<<>>, <<300>>}, dry : BOOLEAN]

\* What the environment does to the start-up of main(): nothing, no
\* keyboard found, or a failing fork(), setsid() or chdir().
StartEnvs == {"ok", "nokbd", "fork", "setsid", "chdir"}

(***************************************************************************)
(* Pure functions.                                                         *)
(***************************************************************************)
\* parse_args, case 'c': the range test is applied to the option character
\* c (which is 'c' = 99), not to col, so col is only truncated to 8 bits.
OptionChar == 99

ParseHue(col) ==
    LET c == IF OptionChar > 255 THEN 255
             ELSE IF OptionChar < 0 THEN 0 ELSE OptionChar
    IN  col % 256

\* fscanf into *out: the first n fields are assigned, the others keep
\* whatever *out held.
ScanInto(out, line, n) ==
    [k \in 1..NumFields |-> IF k <= n THEN line[k] ELSE out[k]]

\* unsigned long subtraction and addition wrap.
USub(a, b) == (a - b) % ULongMod

RECURSIVE USum(_, _, _)
USum(curr, prev, k) ==
    IF k = 0 THEN 0
    ELSE (USum(curr, prev, k - 1) + USub(curr[k], prev[k])) % ULongMod

\* Mutant of stat_entry_calc_delta: the idle delta is counted as busy.
calc_delta_counts_idle(curr, prev) ==
    [usage |-> USum(curr, prev, 4), total |-> USum(curr, prev, NumFields)]

stat_entry_calc_delta(curr, prev) ==
    [usage |-> USum(curr, prev, 3), total |-> USum(curr, prev, NumFields)]

\* (unsigned char)roundf(sqrtf(ratio) * 255.f), ratio = use / tot.
\* The value is round(255 * sqrt(u/t)), i.e. the k with
\* (2k-1)^2 * t <= 4 * 255^2 * u < (2k+1)^2 * t, computed exactly (the
\* counters are below 2^24, so the float conversions are exact).  The
\* conversion to unsigned char is defined only when that value is at most
\* 255: not for 0/0 (NaN), u/0 (infinity), or a ratio well above 1.
SatDefined(u, t) == t > 0 /\ 260100 * u < 261121 * t

RoundSat(u, t) ==
    CHOOSE k \in 0..255 :
        /\ (k = 0 \/ (2 * k - 1) * (2 * k - 1) * t <= 260100 * u)
        /\ 260100 * u < (2 * k + 1) * (2 * k + 1) * t

\* Outcomes of a float-to-unsigned-char conversion whose value is out of
\* range (undefined behaviour): any 8-bit value, sampled every UBStep.
UBChars == {k \in 0..255 : k % UBStep = 0}

Saturations(u, t) == IF SatDefined(u, t) THEN {RoundSat(u, t)} ELSE UBChars

\* A value stored into an unsigned char.
UChar(x) == x % 256

\* hsv2rgb, lines 179-184: the int values of the right-hand sides, before
\* they are stored into the unsigned char region, remainder, p, q, t.
hsv_region(h) == h \div 43

\* Mutant of hsv_remainder: the offset within the region is scaled by 8.
hsv_remainder_x8(h) == (h - (UChar(hsv_region(h)) * 43)) * 8

hsv_remainder(h) == (h - (UChar(hsv_region(h)) * 43)) * 6

hsv_p(s, v) == (v * (255 - s)) \div 256

hsv_q(h, s, v) ==
    (v * (255 - ((s * UChar(hsv_remainder(h))) \div 256))) \div 256

hsv_t(h, s, v) ==
    (v * (255 - ((s * (255 - UChar(hsv_remainder(h)))) \div 256))) \div 256

hsv2rgb(h, s, v) ==
    IF s = 0 THEN <<v, v, v>>
    ELSE LET region == UChar(hsv_region(h))
             p == UChar(hsv_p(s, v))
             q == UChar(hsv_q(h, s, v))
             t == UChar(hsv_t(h, s, v))
         IN  CASE region = 0 -> <<v, t, p>>
               [] region = 1 -> <<q, v, p>>
               [] region = 2 -> <<p, v, t>>
               [] region = 3 -> <<p, q, v>>
               [] region = 4 -> <<t, p, v>>
               [] OTHER      -> <<v, p, q>>

\* exit status of the process: the low 8 bits of the value returned.
ExitStatus(r) == r % 256

(***************************************************************************)
(* The device driver, by its contract.                                     *)
(***************************************************************************)
\* open_keyboard(): a fresh handle, or NULL.
OpenResults == IF created < MaxHandles THEN {NULL, created + 1} ELSE {NULL}

Opened(hs, h) == IF h = NULL THEN hs ELSE hs \cup {h}

\* hid_close(h)
Closed(hs, h) == hs \ {h}

IsDoubleClose(hs, h) == h # NULL /\ h \notin hs

\* No pure function is under study.
NoCall == [op |-> "none"]

(***************************************************************************)
(* Initial state: entry of main().                                         *)
(***************************************************************************)
Init ==
    /\ pc = "main"
    /\ daemon_running = TRUE
    /\ hue = DefaultHue
    /\ dry_run = FALSE
    /\ ret = 0
    /\ dev = NULL
    /\ timeout = InitTimeout
    /\ stat_prev \in Lines      \* uninitialised stack contents
    /\ stat_curr \in Lines
    /\ use = 0
    /\ tot = 0
    /\ colors = <<0, 0, 0>>
    /\ i = 0
    /\ dir = 0
    /\ exitCode = -1
    /\ handles = {}
    /\ created = 0
    /\ calls = <<>>
    /\ attempts = 0
    /\ tickSleeps = 0
    /\ retrySleeps = 0
    /\ cause = "none"
    /\ sweep = <<>>
    /\ modeOn = -1
    /\ doubleClose = FALSE
    /\ reconnected = FALSE
    /\ fn = NoCall

(***************************************************************************)
(* Helpers of the actions.                                                 *)
(***************************************************************************)
\* exit(code): the process ends where it stands; nothing is closed.
Exits(code, why) ==
    /\ pc' = "done"
    /\ exitCode' = ExitStatus(code)
    /\ cause' = why

\* read_proc_stat(out) when fscanf() reads `line` and returns n.  eof:
\* n < 0 and the process exits; otherwise *out holds the fields that were
\* matched and the function returns.
ReadOutcome(out, line, n) ==
    [eof |-> n < 0, out |-> IF n < 0 THEN out ELSE ScanInto(out, line, n)]

\* read_proc_stat(out): the outcomes of one call.
read_proc_stat(out) ==
    {ReadOutcome(out, line, n) : line \in Lines, n \in ScanResults}

\* One second of sleep, counted once the termination flag is set.
Slept(n) == IF daemon_running THEN n ELSE n + 1

\* The saturation of step dir of the sweep, as the loop computes it.
BlinkSat(d) ==
    LET sat == IF d % 2 = 1 THEN 255 ELSE 0
    IN  (IF d # 0 THEN 255 - sat ELSE sat) % 256

\* One call set_color(dev, colors, zone, br) as recorded in calls.
Call(zone, r) == [zone |-> zone, ok |-> r > 0, h |-> dev, open |-> dev \in handles]

locals == <<stat_prev, stat_curr, use, tot, colors, i, dir>>
device == <<dev, handles, created, modeOn, doubleClose>>
sleeps == <<tickSleeps, retrySleeps>>

(***************************************************************************)
(* main(), lines 351-403: options, keyboard_found(), the dry-run branch,   *)
(* daemonisation (the child is followed), the SIGTERM handler.             *)
(***************************************************************************)
Main ==
    /\ pc = "main"
    /\ \E argv \in Argvs, env \in StartEnvs :
          /\ hue' = IF argv.color = <<>> THEN hue ELSE ParseHue(argv.color[1])
          /\ dry_run' = argv.dry
          /\ IF env = "nokbd" THEN Exits(1, "nokbd")
             ELSE IF argv.dry
                  THEN pc' = "blink" /\ UNCHANGED <<exitCode, cause>>
             ELSE IF env # "ok" THEN Exits(1, "daemonize")
             ELSE pc' = "startup" /\ UNCHANGED <<exitCode, cause>>
    /\ UNCHANGED <<daemon_running, ret, timeout, locals, device, sleeps,
                   calls, attempts, sweep, reconnected, fn>>

\* Mutant of Sigterm: the handler also sets the failure status.
SigtermSetsFailure ==
    /\ ~dry_run
    /\ pc \notin {"main", "done"}
    /\ daemon_running' = FALSE
    /\ ret' = 1
    /\ UNCHANGED <<pc, hue, dry_run, fn, timeout, locals, exitCode, device,
                   sleeps, calls, attempts, cause, sweep, reconnected>>

(***************************************************************************)
(* sigterm_handler, lines 35-39; registered at line 403.                   *)
(***************************************************************************)
Sigterm ==
    /\ ~dry_run
    /\ pc \notin {"main", "done"}
    /\ daemon_running' = FALSE
    /\ UNCHANGED <<pc, hue, dry_run, fn, ret, timeout, locals, exitCode, device,
                   sleeps, calls, attempts, cause, sweep, reconnected>>

(***************************************************************************)
(* main(), lines 405-407: the start-up sample and the first sleep.         *)
(***************************************************************************)
Startup ==
    /\ pc = "startup"
    /\ \E r \in read_proc_stat(stat_prev) :
          IF r.eof
          THEN /\ Exits(1, "sampling")
               /\ UNCHANGED <<stat_prev, tickSleeps>>
          ELSE /\ stat_prev' = r.out
               /\ tickSleeps' = Slept(tickSleeps)
               /\ pc' = "open"
               /\ UNCHANGED <<exitCode, cause>>
    /\ UNCHANGED <<daemon_running, hue, dry_run, fn, ret, timeout, stat_curr, use,
                   tot, colors, i, dir, device, retrySleeps, calls, attempts,
                   sweep, reconnected>>

\* Mutant of OpenKeyboard: a failed open leaves the status clear.
OpenKeyboardIgnoresFailure ==
    /\ pc = "open"
    /\ \E h \in OpenResults :
          /\ dev' = h
          /\ handles' = Opened(handles, h)
          /\ created' = IF h = NULL THEN created ELSE created + 1
          /\ ret' = ret
          /\ cause' = IF h = NULL THEN "openfail" ELSE cause
          /\ modeOn' = h
    /\ timeout' = InitTimeout
    /\ pc' = "loop"
    /\ UNCHANGED <<daemon_running, hue, dry_run, fn, locals, exitCode, doubleClose,
                   sleeps, calls, attempts, sweep, reconnected>>

\* Mutant of OpenKeyboard: a failed open sets the status to -1.
OpenKeyboardMinusOne ==
    /\ pc = "open"
    /\ \E h \in OpenResults :
          /\ dev' = h
          /\ handles' = Opened(handles, h)
          /\ created' = IF h = NULL THEN created ELSE created + 1
          /\ ret' = IF h = NULL THEN -1 ELSE ret
          /\ cause' = IF h = NULL THEN "openfail" ELSE cause
          /\ modeOn' = h
    /\ timeout' = InitTimeout
    /\ pc' = "loop"
    /\ UNCHANGED <<daemon_running, hue, dry_run, fn, locals, exitCode, doubleClose,
                   sleeps, calls, attempts, sweep, reconnected>>

(***************************************************************************)
(* main(), lines 409-421: open the keyboard, set the mode.                 *)
(***************************************************************************)
OpenKeyboard ==
    /\ pc = "open"
    /\ \E h \in OpenResults :
          /\ dev' = h
          /\ handles' = Opened(handles, h)
          /\ created' = IF h = NULL THEN created ELSE created + 1
          /\ ret' = IF h = NULL THEN 1 ELSE ret
          /\ cause' = IF h = NULL THEN "openfail" ELSE cause
          /\ modeOn' = h
    /\ timeout' = InitTimeout
    /\ pc' = "loop"
    /\ UNCHANGED <<daemon_running, hue, dry_run, fn, locals, exitCode, doubleClose,
                   sleeps, calls, attempts, sweep, reconnected>>

\* Mutant of LoopTest: the loop tests only the failure status.
LoopTestIgnoresFlag ==
    /\ pc = "loop"
    /\ IF ret = 0
       THEN pc' = "tick" /\ UNCHANGED cause
       ELSE pc' = "exit" /\ cause' = IF ret = 0 THEN "signal" ELSE cause
    /\ UNCHANGED <<daemon_running, hue, dry_run, fn, ret, timeout, locals,
                   exitCode, device, sleeps, calls, attempts, sweep,
                   reconnected>>

(***************************************************************************)
(* main(), line 422: while (daemon_running && !ret).                       *)
(***************************************************************************)
LoopTest ==
    /\ pc = "loop"
    /\ IF daemon_running /\ ret = 0
       THEN pc' = "tick" /\ UNCHANGED cause
       ELSE pc' = "exit" /\ cause' = IF ret = 0 THEN "signal" ELSE cause
    /\ UNCHANGED <<daemon_running, hue, dry_run, fn, ret, timeout, locals,
                   exitCode, device, sleeps, calls, attempts, sweep,
                   reconnected>>

(***************************************************************************)
(* main(), lines 423-443: sample, delta, ratio, colour.                    *)
(***************************************************************************)
Sample ==
    /\ pc = "tick"
    /\ \E r \in read_proc_stat(stat_curr) :
          IF r.eof
          THEN /\ Exits(1, "sampling")
               /\ UNCHANGED <<stat_curr, use, tot, colors, i, calls>>
          ELSE LET d == stat_entry_calc_delta(r.out, stat_prev)
               IN  /\ stat_curr' = r.out
                   /\ use' = d.usage
                   /\ tot' = d.total
                   /\ \E s \in Saturations(d.usage, d.total) :
                         colors' = hsv2rgb(hue, s, 255)
                   /\ i' = 0
                   /\ calls' = <<>>
                   /\ pc' = "dispatch"
                   /\ UNCHANGED <<exitCode, cause>>
    /\ UNCHANGED <<daemon_running, hue, dry_run, fn, ret, timeout, stat_prev, dir,
                   device, sleeps, attempts, sweep, reconnected>>

\* Mutant of SetColor: the result of set_color() is dropped.
SetColorIgnoresFailure ==
    /\ pc = "dispatch"
    /\ i < NUM_REGIONS /\ ret = 0
    /\ \E r \in SetColorResults :
          /\ calls' = Append(calls, Call(i + 1, r))
          /\ ret' = ret
    /\ i' = i + 1
    /\ UNCHANGED <<pc, daemon_running, hue, dry_run, fn, timeout, stat_prev,
                   stat_curr, use, tot, colors, dir, exitCode, device, sleeps,
                   attempts, cause, sweep, reconnected>>

(***************************************************************************)
(* main(), lines 445-447: one iteration of the zone loop.                  *)
(***************************************************************************)
SetColor ==
    /\ pc = "dispatch"
    /\ i < NUM_REGIONS /\ ret = 0
    /\ \E r \in SetColorResults :
          /\ calls' = Append(calls, Call(i + 1, r))
          /\ ret' = IF r <= 0 THEN -1 ELSE ret
    /\ i' = i + 1
    /\ UNCHANGED <<pc, daemon_running, hue, dry_run, fn, timeout, stat_prev,
                   stat_curr, use, tot, colors, dir, exitCode, device, sleeps,
                   attempts, cause, sweep, reconnected>>

\* the zone loop ends; line 449: if (ret)
DispatchEnd ==
    /\ pc = "dispatch"
    /\ ~(i < NUM_REGIONS /\ ret = 0)
    /\ pc' = IF ret # 0 THEN "reopen" ELSE "handoff"
    /\ reconnected' = FALSE
    /\ UNCHANGED <<daemon_running, hue, dry_run, fn, ret, timeout, locals,
                   exitCode, device, sleeps, calls, attempts, cause, sweep>>

\* Mutant of Reopen: the stale handle is not closed before the reopen.
ReopenLeaksHandle ==
    /\ pc = "reopen"
    /\ \E h \in OpenResults :
          /\ dev' = h
          /\ handles' = Opened(handles, h)
          /\ created' = IF h = NULL THEN created ELSE created + 1
    /\ doubleClose' = doubleClose
    /\ attempts' = 1
    /\ pc' = "retry"
    /\ UNCHANGED <<daemon_running, hue, dry_run, fn, ret, timeout, locals,
                   exitCode, modeOn, sleeps, calls, cause, sweep, reconnected>>

(***************************************************************************)
(* main(), lines 450-453: close the stale handle, reopen at once.          *)
(***************************************************************************)
Reopen ==
    /\ pc = "reopen"
    /\ \E h \in OpenResults :
          /\ dev' = h
          /\ handles' = Opened(Closed(handles, dev), h)
          /\ created' = IF h = NULL THEN created ELSE created + 1
    /\ doubleClose' = (doubleClose \/ IsDoubleClose(handles, dev))
    /\ attempts' = 1
    /\ pc' = "retry"
    /\ UNCHANGED <<daemon_running, hue, dry_run, fn, ret, timeout, locals,
                   exitCode, modeOn, sleeps, calls, cause, sweep, reconnected>>

\* Mutant of Retry: the retry counter is not decremented.
RetryNoDecrement ==
    /\ pc = "retry"
    /\ dev = NULL /\ timeout # 0
    /\ retrySleeps' = Slept(retrySleeps)
    /\ \E h \in OpenResults :
          /\ dev' = h
          /\ handles' = Opened(handles, h)
          /\ created' = IF h = NULL THEN created ELSE created + 1
    /\ timeout' = timeout
    /\ attempts' = attempts + 1
    /\ UNCHANGED <<pc, daemon_running, hue, dry_run, fn, ret, locals, exitCode,
                   modeOn, doubleClose, tickSleeps, calls, cause, sweep,
                   reconnected>>

(***************************************************************************)
(* main(), lines 454-459: one iteration of the retry loop.                 *)
(***************************************************************************)
Retry ==
    /\ pc = "retry"
    /\ dev = NULL /\ timeout # 0
    /\ retrySleeps' = Slept(retrySleeps)
    /\ \E h \in OpenResults :
          /\ dev' = h
          /\ handles' = Opened(handles, h)
          /\ created' = IF h = NULL THEN created ELSE created + 1
    /\ timeout' = (timeout - 1) % 256
    /\ attempts' = attempts + 1
    /\ UNCHANGED <<pc, daemon_running, hue, dry_run, fn, ret, locals, exitCode,
                   modeOn, doubleClose, tickSleeps, calls, cause, sweep,
                   reconnected>>

\* Mutant of RetryEnd: a successful reopen leaves the failure status set.
RetryEndKeepsFailure ==
    /\ pc = "retry"
    /\ ~(dev = NULL /\ timeout # 0)
    /\ IF dev = NULL
       THEN cause' = "exhausted" /\ UNCHANGED ret
       ELSE UNCHANGED <<ret, cause>>
    /\ reconnected' = (dev # NULL /\ attempts = 1)
    /\ pc' = "handoff"
    /\ UNCHANGED <<daemon_running, hue, dry_run, fn, timeout, locals, exitCode,
                   device, sleeps, calls, attempts, sweep>>

\* the retry loop ends; lines 460-465
RetryEnd ==
    /\ pc = "retry"
    /\ ~(dev = NULL /\ timeout # 0)
    /\ IF dev = NULL
       THEN cause' = "exhausted" /\ UNCHANGED ret
       ELSE ret' = 0 /\ UNCHANGED cause
    /\ reconnected' = (dev # NULL /\ attempts = 1)
    /\ pc' = "handoff"
    /\ UNCHANGED <<daemon_running, hue, dry_run, fn, timeout, locals, exitCode,
                   device, sleeps, calls, attempts, sweep>>

\* Mutant of HandOff: the current sample is not copied to the previous one.
HandOffKeepsPrev ==
    /\ pc = "handoff"
    /\ stat_prev' = stat_prev
    /\ tickSleeps' = Slept(tickSleeps)
    /\ pc' = "loop"
    /\ UNCHANGED <<daemon_running, hue, dry_run, fn, ret, timeout, stat_curr, use,
                   tot, colors, i, dir, exitCode, device, retrySleeps, calls,
                   attempts, cause, sweep, reconnected>>

\* Mutant of HandOff: the loop test is skipped after the sleep.
HandOffSkipsTest ==
    /\ pc = "handoff"
    /\ stat_prev' = stat_curr
    /\ tickSleeps' = Slept(tickSleeps)
    /\ pc' = "tick"
    /\ UNCHANGED <<daemon_running, hue, dry_run, fn, ret, timeout, stat_curr, use,
                   tot, colors, i, dir, exitCode, device, retrySleeps, calls,
                   attempts, cause, sweep, reconnected>>

(***************************************************************************)
(* main(), lines 466-467: stat_prev = stat_curr; sleep(1).                 *)
(***************************************************************************)
HandOff ==
    /\ pc = "handoff"
    /\ stat_prev' = stat_curr
    /\ tickSleeps' = Slept(tickSleeps)
    /\ pc' = "loop"
    /\ UNCHANGED <<daemon_running, hue, dry_run, fn, ret, timeout, stat_curr, use,
                   tot, colors, i, dir, exitCode, device, retrySleeps, calls,
                   attempts, cause, sweep, reconnected>>

(***************************************************************************)
(* main(), lines 470-473: hid_close(dev); return ret.                      *)
(***************************************************************************)
Exit ==
    /\ pc = "exit"
    /\ handles' = Closed(handles, dev)
    /\ doubleClose' = (doubleClose \/ IsDoubleClose(handles, dev))
    /\ exitCode' = ExitStatus(ret)
    /\ pc' = "done"
    /\ UNCHANGED <<daemon_running, hue, dry_run, fn, ret, dev, timeout, locals,
                   created, modeOn, sleeps, calls, attempts, cause, sweep,
                   reconnected>>

(***************************************************************************)
(* blink_test(), lines 287-333, and exit(ret) at line 361.                 *)
(***************************************************************************)
\* lines 293-301
BlinkOpen ==
    /\ pc = "blink"
    /\ \E h \in OpenResults :
          /\ dev' = h
          /\ handles' = Opened(handles, h)
          /\ created' = IF h = NULL THEN created ELSE created + 1
          /\ IF h = NULL
             THEN Exits(1, "openfail") /\ UNCHANGED modeOn
             ELSE /\ modeOn' = h
                  /\ pc' = "blink_step"
                  /\ UNCHANGED <<exitCode, cause>>
    /\ dir' = 0
    /\ UNCHANGED <<daemon_running, hue, dry_run, fn, ret, timeout, stat_prev,
                   stat_curr, use, tot, colors, i, doubleClose, sleeps, calls,
                   attempts, sweep, reconnected>>

\* lines 303-315: the head of one step of the sweep
BlinkStep ==
    /\ pc = "blink_step"
    /\ dir < SweepSteps
    /\ colors' = hsv2rgb(hue, BlinkSat(dir), 255)
    /\ sweep' = Append(sweep, [h |-> hue, s |-> BlinkSat(dir), v |-> 255])
    /\ i' = 0
    /\ calls' = <<>>
    /\ pc' = "blink_zone"
    /\ UNCHANGED <<daemon_running, hue, dry_run, fn, ret, timeout, stat_prev,
                   stat_curr, use, tot, dir, exitCode, device, sleeps,
                   attempts, cause, reconnected>>

\* lines 320-322: one iteration of the zone loop
BlinkSetColor ==
    /\ pc = "blink_zone"
    /\ i < NUM_REGIONS /\ ret = 0
    /\ \E r \in SetColorResults :
          /\ calls' = Append(calls, Call(i + 1, r))
          /\ ret' = IF r <= 0 THEN -1 ELSE ret
    /\ i' = i + 1
    /\ UNCHANGED <<pc, daemon_running, hue, dry_run, fn, timeout, stat_prev,
                   stat_curr, use, tot, colors, dir, exitCode, device, sleeps,
                   attempts, cause, sweep, reconnected>>

\* lines 324-328: nanosleep, ++dir
BlinkSleep ==
    /\ pc = "blink_zone"
    /\ ~(i < NUM_REGIONS /\ ret = 0)
    /\ dir' = (dir + 1) % 256
    /\ pc' = "blink_step"
    /\ UNCHANGED <<daemon_running, hue, dry_run, fn, ret, timeout, stat_prev,
                   stat_curr, use, tot, colors, i, exitCode, device, sleeps,
                   calls, attempts, cause, sweep, reconnected>>

\* lines 330-332 and 361: hid_close(dev); exit(ret)
BlinkEnd ==
    /\ pc = "blink_step"
    /\ ~(dir < SweepSteps)
    /\ handles' = Closed(handles, dev)
    /\ doubleClose' = (doubleClose \/ IsDoubleClose(handles, dev))
    /\ Exits(ret, "dryrun")
    /\ UNCHANGED <<daemon_running, hue, dry_run, fn, ret, dev, timeout, locals,
                   created, modeOn, sleeps, calls, attempts, sweep,
                   reconnected>>

Next ==
    \/ Main
    \/ Sigterm
    \/ Startup
    \/ OpenKeyboard
    \/ LoopTest
    \/ Sample
    \/ SetColor
    \/ DispatchEnd
    \/ Reopen
    \/ Retry
    \/ RetryEnd
    \/ HandOff
    \/ Exit
    \/ BlinkOpen
    \/ BlinkStep
    \/ BlinkSetColor
    \/ BlinkSleep
    \/ BlinkEnd

Spec == Init /\ [][Next]_vars

(***************************************************************************)
(* The pure functions on their own: CallSpec draws one call of hsv2rgb,    *)
(* of the -c case of parse_args, of stat_entry_calc_delta or of            *)
(* read_proc_stat from bounded sets of arguments and applies the function. *)
(***************************************************************************)
\* Bounds: the spacing of the saturation and value channels tried with
\* every hue, and how far beyond [0,255] the -c arguments go.
ChanStep == 17

ColSpan == 300

Chans == {k \in 0..255 : k % ChanStep = 0} \cup {1, 254, 255}

HsvArgs == [h : 0..255, s : Chans, v : Chans]

ColArgs == (0 - ColSpan)..(255 + ColSpan)

\* Counter samples: the spec's example values, zero, and half the range of
\* an unsigned long, in the user, sys, idle and guest_nice fields.
CounterSamples ==
    {<<us, 0, sy, id, 0, 0, 0, 0, 0, gn>> :
        us \in {0, 100, 120, ULongMod \div 2}, sy \in {50, 60},
        id \in {0, 850, 870, ULongMod \div 2}, gn \in {0, 5}}

DeltaArgs == [curr : CounterSamples, prev : CounterSamples]

ReadArgs == [out : Lines, line : Lines, n : (0 - 1)..NumFields]

FnCalls ==
    {[op |-> "hsv2rgb", arg |-> a, out |-> "pending"] : a \in HsvArgs}
    \cup {[op |-> "parse_args", arg |-> a, out |-> "pending"] : a \in ColArgs}
    \cup {[op |-> "stat_entry_calc_delta", arg |-> a, out |-> "pending"] :
            a \in DeltaArgs}
    \cup {[op |-> "read_proc_stat", arg |-> a, out |-> "pending"] :
            a \in ReadArgs}

program == <<daemon_running, hue, dry_run, ret, dev, timeout, stat_prev,
             stat_curr, use, tot, colors, i, dir, exitCode, handles, created,
             calls, attempts, tickSleeps, retrySleeps, cause, sweep, modeOn,
             doubleClose, reconnected>>

InitCall ==
    /\ pc = "fn_call"
    /\ fn \in FnCalls
    /\ daemon_running = TRUE
    /\ hue = DefaultHue
    /\ dry_run = FALSE
    /\ ret = 0
    /\ dev = NULL
    /\ timeout = InitTimeout
    /\ stat_prev = Line(0, 0, 0)
    /\ stat_curr = Line(0, 0, 0)
    /\ use = 0
    /\ tot = 0
    /\ colors = <<0, 0, 0>>
    /\ i = 0
    /\ dir = 0
    /\ exitCode = -1
    /\ handles = {}
    /\ created = 0
    /\ calls = <<>>
    /\ attempts = 0
    /\ tickSleeps = 0
    /\ retrySleeps = 0
    /\ cause = "none"
    /\ sweep = <<>>
    /\ modeOn = -1
    /\ doubleClose = FALSE
    /\ reconnected = FALSE

\* hsv2rgb(hsv), lines 166-209
CallHsv2rgb ==
    /\ pc = "fn_call" /\ fn.op = "hsv2rgb"
    /\ fn' = [fn EXCEPT !.out = hsv2rgb(fn.arg.h, fn.arg.s, fn.arg.v)]
    /\ pc' = "fn_done"
    /\ UNCHANGED program

\* parse_args, case 'c', lines 268-275: the hue set by -c <arg>
CallParseArgs ==
    /\ pc = "fn_call" /\ fn.op = "parse_args"
    /\ fn' = [fn EXCEPT !.out = ParseHue(fn.arg)]
    /\ pc' = "fn_done"
    /\ UNCHANGED program

\* stat_entry_calc_delta(curr, prev, &usage, &total), lines 131-157
CallCalcDelta ==
    /\ pc = "fn_call" /\ fn.op = "stat_entry_calc_delta"
    /\ fn' = [fn EXCEPT !.out = stat_entry_calc_delta(fn.arg.curr, fn.arg.prev)]
    /\ pc' = "fn_done"
    /\ UNCHANGED program

\* read_proc_stat(out), lines 88-119
CallReadProcStat ==
    /\ pc = "fn_call" /\ fn.op = "read_proc_stat"
    /\ fn' = [fn EXCEPT !.out = ReadOutcome(fn.arg.out, fn.arg.line, fn.arg.n)]
    /\ pc' = "fn_done"
    /\ UNCHANGED program

NextCall ==
    \/ CallHsv2rgb
    \/ CallParseArgs
    \/ CallCalcDelta
    \/ CallReadProcStat

CallSpec == InitCall /\ [][NextCall]_vars

(***************************************************************************)
(* Properties.                                                             *)
(***************************************************************************)
Last(s) == s[Len(s)]

\* The positions of a tick body after its sample was taken.
InTick == pc \in {"dispatch", "reopen", "retry", "handoff"}

\* Some counter of curr is below the same counter of prev.
Regressed(curr, prev) == \E k \in 1..NumFields : curr[k] < prev[k]

\* C1 (as stated): in a retry episode at most 10 open() attempts are made,
\* an 11th never.
C1_AtMostTenOpens == attempts <= InitTimeout

\* C1 (amended): a retry episode makes at most 11 open() attempts, the
\* immediate reopen and one per unit of the retry counter; when all of them
\* fail the failure status stays set, no further tick starts, and main
\* returns a non-zero value.
C1_RetryExhaustion ==
    /\ attempts <= InitTimeout + 1
    /\ attempts > 0 => attempts + timeout <= InitTimeout + 1
    /\ cause = "exhausted" =>
          /\ ret # 0
          /\ dev = NULL
          /\ pc \in {"handoff", "loop", "exit", "done"}
          /\ pc = "done" => exitCode # 0

C1_Witness ==
    pc = "done" /\ cause = "exhausted" /\ attempts = InitTimeout + 1

\* C2: at the start of every retry episode the retry counter equals its
\* initial bound 10.
C2_CounterResetPerEpisode == pc = "reopen" => timeout = InitTimeout

\* C3: after a dispatch failure whose first reopen attempt succeeds, the
\* failure status is clear and the new handle is open; the loop reaches its
\* test, which, unless the termination flag is set, starts a further tick;
\* that tick samples and, the sample read, dispatches, every call on the new
\* handle; the loop ends only on the flag (or on a fatal sample read).
C3_ReconnectResumes ==
    [][ /\ (pc' = "handoff" /\ reconnected') =>
              (ret' = 0 /\ dev' # NULL /\ handles' = {dev'})
        /\ (reconnected /\ pc = "handoff" /\ pc' # pc) =>
              (pc' = "loop" /\ ret' = 0 /\ dev' = dev)
        /\ (reconnected /\ pc = "loop" /\ pc' # pc) =>
              (pc' = IF daemon_running THEN "tick" ELSE "exit")
        /\ (reconnected /\ pc = "tick" /\ pc' # pc) =>
              (pc' = "dispatch" \/ (pc' = "done" /\ cause' = "sampling"))
        /\ (reconnected /\ pc = "dispatch" /\ calls = <<>> /\ calls' = calls)
              => pc' = "dispatch"
        /\ (reconnected /\ pc = "dispatch" /\ calls' # calls) =>
              (Last(calls').h = dev /\ Last(calls').open /\ handles = {dev})
      ]_vars

C3_Witness ==
    /\ pc = "dispatch" /\ reconnected /\ daemon_running
    /\ Len(calls) = NUM_REGIONS
    /\ \A k \in 1..Len(calls) : calls[k].h = dev /\ calls[k].ok
    /\ created = 2 /\ dev = 2

\* C4: in every tick of the daemon set_color is called on zones 1, 2, ... in
\* increasing order, at most up to zone 3; only the last call made can have
\* failed, so no zone is dispatched after a failure; a tick without failure
\* dispatches exactly zones 1, 2, 3.
C4_ZoneOrder ==
    ~dry_run =>
        /\ Len(calls) <= NUM_REGIONS
        /\ \A k \in 1..Len(calls) :
              calls[k].zone = k /\ (k < Len(calls) => calls[k].ok)
        /\ pc = "reopen" => (calls # <<>> /\ ~Last(calls).ok)
        /\ (pc = "handoff" /\ \A k \in 1..Len(calls) : calls[k].ok) =>
              Len(calls) = NUM_REGIONS

C4_Witness ==
    /\ pc = "reopen" /\ Len(calls) = 2
    /\ calls[1].ok /\ ~calls[2].ok

\* C5: when the loop test finds the termination flag set while the failure
\* status is clear, the loop is left without a further sample or zone
\* dispatch, the device handle is closed, and main returns 0.
C5_StopAtTop ==
    [][ /\ (pc = "loop" /\ ~daemon_running /\ ret = 0 /\ pc' # pc) =>
              (pc' = "exit" /\ UNCHANGED <<stat_curr, colors, calls, ret>>)
        /\ (pc = "exit" /\ ret = 0 /\ pc' # pc) =>
              /\ pc' = "done"
              /\ exitCode' = 0
              /\ dev \in handles /\ handles' = {}
              /\ UNCHANGED <<stat_curr, colors, calls>>
      ]_vars

C5_Witness ==
    /\ pc = "done" /\ cause = "signal" /\ exitCode = 0
    /\ created > 0 /\ handles = {}

\* C6 (as stated): once the termination flag is set, at most one 1-second
\* sleep elapses before the loop is left.
C6_OneSleep == (pc # "done") => tickSleeps + retrySleeps <= 1

\* C6 (amended): once the termination flag is set, at most one tick sleep
\* elapses before the loop test reads the flag and the loop is left; when
\* the flag is set inside a retry episode the retry loop, which does not
\* read the flag, first sleeps once per remaining unit of the retry counter,
\* at most 10 times: at most 11 sleeps in all.
C6_Latency ==
    /\ tickSleeps <= 1
    /\ retrySleeps + timeout <= InitTimeout
    /\ tickSleeps = 1 => pc \in {"open", "loop", "exit", "done"}
    /\ (retrySleeps > 0 /\ tickSleeps = 0) => pc \in {"retry", "handoff"}

C6_Witness ==
    pc = "exit" /\ tickSleeps = 1 /\ retrySleeps = InitTimeout

C8_RegressionSkipped ==
    (InTick /\ Regressed(stat_curr, stat_prev)) => calls = <<>>

\* C9: a tick whose total delta is 0 is skipped: no colour derived from the
\* ratio use / 0 is dispatched.
C9_ZeroTotalSkipped == (InTick /\ tot = 0) => calls = <<>>

\* C10: the 8 steps of the dry-run sweep use the configured hue and value
\* 255, with saturations 0, 255, 0, 255, 0, 255, 0, 255.
C10_SweepAlternates ==
    \A k \in 1..Len(sweep) :
        /\ sweep[k].h = hue
        /\ sweep[k].v = 255
        /\ sweep[k].s = IF k % 2 = 1 THEN 0 ELSE 255


\* C11: in dry-run mode every step of the sweep dispatches its colour to
\* zones 1, 2, 3, whatever set_color returns; the sweep then closes the
\* device and exits.
C11_AllZonesEachStep ==
    dry_run =>
        /\ (pc = "blink_step" /\ dir > 0) =>
              (Len(calls) = NUM_REGIONS /\ \A k \in 1..Len(calls) : calls[k].zone = k)
        /\ (pc = "done" /\ cause = "dryrun") =>
              (Len(sweep) = SweepSteps /\ handles = {})

InByte(x) == x \in 0..255

\* C12: for every 8-bit (h, s, v), hsv2rgb returns (v, v, v) when s = 0, and
\* the values computed for region, remainder, p, q and t, and each returned
\* channel, lie in [0,255], so that storing them in 8 bits changes nothing.
C12_Hsv2rgbTotal ==
    (fn.op = "hsv2rgb") =>
        LET h == fn.arg.h
            s == fn.arg.s
            v == fn.arg.v
        IN  /\ InByte(hsv_region(h))
            /\ InByte(hsv_remainder(h))
            /\ InByte(hsv_p(s, v))
            /\ InByte(hsv_q(h, s, v))
            /\ InByte(hsv_t(h, s, v))
            /\ pc = "fn_done" =>
                  /\ \A k \in 1..3 : InByte(fn.out[k])
                  /\ s = 0 => fn.out = <<v, v, v>>
                  /\ s # 0 => \A k \in 1..3 :
                        fn.out[k] \in {v, hsv_p(s, v), hsv_q(h, s, v), hsv_t(h, s, v)}

C12_Witness ==
    /\ pc = "fn_done" /\ fn.op = "hsv2rgb"
    /\ fn.arg = [h |-> 255, s |-> 255, v |-> 255]
    /\ hsv_remainder(255) = 240
    /\ fn.out = <<255, 0, 15>>

\* The value of x clamped to [0,255].
Clamp(x) == IF x < 0 THEN 0 ELSE IF x > 255 THEN 255 ELSE x

\* C13: for every integer given to -c, the configured hue is that value
\* clamped to [0,255].
C13_HueClamped ==
    (pc = "fn_done" /\ fn.op = "parse_args") => fn.out = Clamp(fn.arg)

\* Every field of curr is at least the same field of prev.
Monotone(curr, prev) == \A k \in 1..NumFields : curr[k] >= prev[k]

\* The sum of the first k field differences, as an integer.
RECURSIVE DiffSum(_, _, _)
DiffSum(curr, prev, k) ==
    IF k = 0 THEN 0 ELSE DiffSum(curr, prev, k - 1) + (curr[k] - prev[k])

\* busy is the sum of the user, nice and system deltas, total the sum of all
\* ten deltas, and 0 <= busy <= total.
DeltaAsSpecified(curr, prev, out) ==
    /\ out.usage = DiffSum(curr, prev, 3)
    /\ out.total = DiffSum(curr, prev, NumFields)
    /\ 0 <= out.usage /\ out.usage <= out.total

C15_PartialReadFatal ==
    (pc = "fn_done" /\ fn.op = "read_proc_stat" /\ fn.arg.n # NumFields) =>
        fn.out.eof

\* C16: when the initial open fails in daemon mode, no set_mode and no
\* set_color is issued, no tick body runs, and the process ends with a
\* non-zero outcome.
C16_OpenFailureStops ==
    (~dry_run /\ cause = "openfail") =>
        /\ modeOn = -1
        /\ calls = <<>>
        /\ pc \in {"loop", "exit", "done"}
        /\ pc = "done" => exitCode # 0

\* C17: the previous sample changes only at start-up and at the end of a
\* tick, where it becomes the current sample; every tick, also one that went
\* through a retry episode, ends that way before the loop test, and the
\* current sample changes only when a tick reads it: so at the loop test
\* and at the start of a tick prev is the sample the preceding tick read.
C17_SampleHandOff ==
    [][ /\ stat_prev' # stat_prev =>
              (pc = "startup" \/ (pc = "handoff" /\ stat_prev' = stat_curr))
        /\ stat_curr' # stat_curr => (pc = "tick" /\ pc' = "dispatch")
        /\ (pc \in {"dispatch", "retry"} /\ pc' \notin {pc, "reopen", "retry"})
              => pc' = "handoff"
        /\ (pc = "handoff" /\ pc' # pc) =>
              (pc' = "loop" /\ stat_prev' = stat_curr /\ stat_curr' = stat_curr)
        /\ pc' = "tick" => (pc \in {"loop", "tick"}
                            /\ (calls # <<>> => stat_prev' = stat_curr'))
      ]_vars

C17_Witness ==
    /\ pc = "tick" /\ attempts > 1 /\ created = 2 /\ ret = 0
    /\ stat_prev = stat_curr /\ stat_prev = Line(120, 60, 870)

\* C18: a step that sets the termination flag changes nothing else (device
\* handle, retry counter, samples, failure status, position), and the flag,
\* once set, is never cleared.
C18_SignalOnlySetsFlag ==
    [][ /\ (daemon_running /\ ~daemon_running') =>
              UNCHANGED <<pc, hue, dry_run, ret, dev, timeout, stat_prev,
                          stat_curr, use, tot, colors, i, dir, exitCode,
                          handles, created>>
        /\ ~daemon_running => ~daemon_running'
      ]_vars

C18_Witness ==
    /\ ~daemon_running /\ pc = "retry" /\ dev = NULL
    /\ timeout = InitTimeout /\ retrySleeps = 0 /\ ret = -1

\* C19: in daemon mode every set_color call is made on a handle that is open
\* (not NULL, not closed), and whenever a tick body starts the failure
\* status is clear and the handle is open.
C19_DispatchOnOpenHandle ==
    ~dry_run =>
        /\ \A k \in 1..Len(calls) : calls[k].h # NULL /\ calls[k].open
        /\ pc \in {"tick", "dispatch"} => (dev # NULL /\ dev \in handles)
        /\ pc = "tick" => ret = 0
        /\ (pc = "loop" /\ ret = 0) => (dev # NULL /\ dev \in handles)

C19_Witness ==
    /\ pc = "dispatch" /\ ~dry_run /\ dev = 2 /\ attempts = 3
    /\ calls # <<>> /\ Last(calls).open /\ ~Last(calls).ok

\* C20: at most one handle is open at any time; when a reopen is attempted
\* the stale handle has been closed; no handle is closed twice; and when
\* main returns no handle is open.
C20_HandleLifecycle ==
    /\ Cardinality(handles) <= 1
    /\ handles \subseteq {dev}
    /\ pc = "retry" => (handles = IF dev = NULL THEN {} ELSE {dev})
    /\ ~doubleClose
    /\ (pc = "done" /\ cause \in {"signal", "openfail", "exhausted"}) =>
          handles = {}

C20_Witness ==
    /\ pc = "done" /\ cause = "exhausted" /\ created = 2
    /\ handles = {} /\ ~doubleClose

=========================================================================
